---- MODULE Spec2Model ----
(***************************************************************************)
(* Model of discord-rolepersist (src/src/main.rs): the Handler with its    *)
(* SQLite store behind the `data` mutex, the weak table of per-member      *)
(* mutexes behind the `member_locks` mutex, and the five gateway event     *)
(* handlers, each run by a concurrent task.                                *)
(*                                                                         *)
(* Every step that touches shared state (a mutex, the connection, the      *)
(* wall clock, the HTTP API) is one action; purely local computation is    *)
(* folded into the shared step that follows it.                            *)
(*                                                                         *)
(* Environment assumptions, stated once:                                   *)
(*  - the wall clock never goes backwards, and a member's joined_at is     *)
(*    never later than the clock at the moment the event (or the roster)   *)
(*    that carries it is produced;                                         *)
(*  - a member's role list, as the gateway delivers it, has no duplicates; *)
(*  - store I/O does not fail (every unwrap() succeeds).                   *)
(***************************************************************************)
EXTENDS Integers, Sequences, FiniteSets, TLC

\* ------------------------------------------------------------- bounds
MaxTask  == 2   \* concurrent event-handler tasks
MaxUser  == 2   \* user ids 1..MaxUser
MaxGuild == 2   \* guild ids 1..MaxGuild
MaxRole  == 2   \* role ids 1..MaxRole
MaxTime  == 2   \* the wall clock runs 0..MaxTime (seconds)
BulkTime == 1   \* the wall clock runs 0..BulkTime while bulk syncs are checked

Tasks  == 1..MaxTask
Users  == 1..MaxUser
Guilds == 1..MaxGuild
Roles  == 1..MaxRole
Times  == 0..MaxTime
Keys   == Users \X Guilds
HandleIds == 1..MaxTask

\* ------------------------------------------------------------ helpers
Range(s) == {s[i] : i \in 1..Len(s)}

Contains(s, x) == \E i \in 1..Len(s) : s[i] = x

NoDup(s) == \A i, j \in 1..Len(s) : i # j => s[i] # s[j]

Count(s, x) == Cardinality({i \in 1..Len(s) : s[i] = x})

RECURSIVE Ascending(_)
\* the elements of a finite set of integers, in increasing order
Ascending(S) ==
    IF S = {} THEN <<>>
    ELSE LET m == CHOOSE x \in S : \A y \in S : x <= y
         IN <<m>> \o Ascending(S \ {m})

RECURSIVE SelectSeqBy(_, _)
\* the subsequence of s whose elements are in S (Iterator::filter)
SelectSeqBy(s, S) ==
    IF s = <<>> THEN <<>>
    ELSE (IF Head(s) \in S THEN <<Head(s)>> ELSE <<>>) \o SelectSeqBy(Tail(s), S)

\* duplicate-free lists the environment hands over
RoleLists   == {Ascending(S) : S \in SUBSET Roles}
GuildLists  == {Ascending(S) : S \in SUBSET Guilds}
Rosters     == {Ascending(S) : S \in SUBSET Users}

\* Option<T>: <<>> is None, <<x>> is Some(x)
None == <<>>
Some(x) == <<x>>
IsSome(o) == o # <<>>

\* ------------------------------------------------------------- config
Allow == "allow"
Deny  == "deny"

\* Restriction { mode, servers }
Restrictions == [mode : {Allow, Deny}, servers : GuildLists]

\* Config.restrict : Option<Restriction>
Configs == {None} \cup {Some(r) : r \in Restrictions}

VARIABLES
    config,         \* Handler.config.restrict
    now,            \* the wall clock (SystemTime::now, whole seconds)
    tbl_last_seen,  \* table last_seen: set of rows (user_id, server_id, time)
    tbl_roles,      \* table roles: per (user_id, server_id), its role_id rows in rowid order
    dataHolder,     \* task holding the guard of Handler.data, 0 if free
    regHolder,      \* task holding the guard of Handler.member_locks, 0 if free
    member_locks,   \* the weak table: key -> id of its live handle, 0 if none
    handleOwner,    \* per handle id: the task holding its guard, 0 if unlocked
    user_lock,      \* per task: the handle (Arc) it holds in do_locked, 0 if none
    branch,         \* per task: branch of do_locked taken ("found" | "created" | "")
    pc,             \* per task: its position
    guilds,         \* per task: guild of the running handler / guilds still to sync
    roster,         \* per task: users of the fetched roster still to observe
    fetched,        \* per task: the clock when the roster was fetched
    member,         \* per task: the SimpleMember being observed
    seen,           \* per task: result of last_seen(member)
    persisted,      \* per task: the Vec roles that restore_member read
    todo,           \* per task: role ids the running loop has still to visit
    role,           \* per task: the role of the pending add_member_role, 0 if none
    stamp,          \* per task: since_epoch.as_secs() of the running save_member
    grants,         \* history: per task, add_member_role requests of its observe, in order
    failed,         \* history: per task, roles whose request returned Err
    incoming,       \* history: per task, member.roles as the observe received it
    pre,            \* history: per task, role rows of the key when last_seen was read
    before,         \* history: per task, the clock when save_member was called
    snap,           \* history: per task, rows of the other guilds when forget_guild began
    dirtyRead,      \* history: some read ran inside another task's open transaction
    prev,           \* history: the observe that committed last, None after a forget
    watch           \* history: what prev keeps of an observe (fixed by Init)

storeVars == <<tbl_last_seen, tbl_roles, dataHolder>>
lockVars  == <<regHolder, member_locks, handleOwner, user_lock, branch>>
bulkVars  == <<guilds, roster, fetched>>
obsVars   == <<member, seen, persisted, todo, role, stamp>>
histVars  == <<grants, failed, incoming, pre, before, snap, dirtyRead, prev>>
vars == <<config, now, storeVars, lockVars, pc, bulkVars, obsVars, histVars, watch>>

NoMember == [user_id |-> 0, server_id |-> 0, joined_at |-> 0, roles |-> <<>>]
NoSnap   == [last_seen |-> {}, roles |-> <<>>, had |-> FALSE]

KeyOf(m) == <<m.user_id, m.server_id>>

\* ------------------------------------------------- restriction filter
\* a find that finds nothing
is_listed_never(servers, server_id) == None

\* Restriction::is_restricted: servers.iter().find(|id| **id == server_id)
is_listed(servers, server_id) ==
    IF \E i \in 1..Len(servers) : servers[i] = server_id
    THEN Some(servers[CHOOSE i \in 1..Len(servers) :
                  /\ servers[i] = server_id
                  /\ \A j \in 1..(i - 1) : servers[j] # server_id])
    ELSE None

is_restricted(restrict, server_id) ==
    IF restrict.mode = Allow
    THEN IsSome(is_listed(restrict.servers, server_id))
    ELSE ~IsSome(is_listed(restrict.servers, server_id))

\* Handler::filter_allow_server
filter_allow_server(id) ==
    IF IsSome(config) THEN is_restricted(config[1], id) ELSE TRUE

\* ---------------------------------------------------------- the store
\* SELECT time FROM last_seen WHERE user_id=?1 AND server_id=?2
SelectLastSeen(user_id, server_id) ==
    {r.time : r \in {x \in tbl_last_seen :
                        x.user_id = user_id /\ x.server_id = server_id}}

\* Handler::last_seen: the first row, if any
last_seen(m) ==
    LET times == SelectLastSeen(m.user_id, m.server_id)
    IN IF times = {} THEN None ELSE Some(CHOOSE x \in times : TRUE)

\* SELECT role_id FROM roles WHERE user_id=?1 AND server_id=?2
SelectRoles(user_id, server_id) == tbl_roles[<<user_id, server_id>>]

\* an INSERT INTO last_seen on a table without the primary key
ReplaceLastSeenInsert(tbl, user_id, server_id, time) ==
    tbl \cup {[user_id |-> user_id, server_id |-> server_id, time |-> time]}

\* an UPDATE of last_seen, which writes no row for a key that has none
ReplaceLastSeenUpdate(tbl, user_id, server_id, time) ==
    {IF x.user_id = user_id /\ x.server_id = server_id
     THEN [user_id |-> user_id, server_id |-> server_id, time |-> time]
     ELSE x : x \in tbl}

\* REPLACE INTO last_seen (user_id, server_id, time): the primary key
\* (user_id, server_id) evicts the row it conflicts with
ReplaceLastSeen(tbl, user_id, server_id, time) ==
    {x \in tbl : ~(x.user_id = user_id /\ x.server_id = server_id)}
        \cup {[user_id |-> user_id, server_id |-> server_id, time |-> time]}

\* DELETE FROM roles WHERE user_id=?1 AND server_id=?2
DeleteRoles(tbl, user_id, server_id) ==
    [tbl EXCEPT ![<<user_id, server_id>>] = <<>>]

\* INSERT INTO roles (user_id, server_id, role_id)
InsertRole(tbl, user_id, server_id, role_id) ==
    [tbl EXCEPT ![<<user_id, server_id>>] = Append(@, role_id)]

\* DELETE FROM roles WHERE server_id=?
DeleteRolesOfServer(tbl, server_id) ==
    [k \in Keys |-> IF k[2] = server_id THEN <<>> ELSE tbl[k]]

\* a DELETE FROM last_seen that lost its WHERE clause
DeleteLastSeenAll(tbl, server_id) == {}

\* DELETE FROM last_seen WHERE server_id=?
DeleteLastSeenOfServer(tbl, server_id) ==
    {x \in tbl : x.server_id # server_id}

\* a data lock that excludes nobody
DataFreeAlways == TRUE

\* self.data.lock().await can complete
DataFree == dataHolder = 0

\* a transaction of some task has executed a statement and not committed
OpenTransaction(t) ==
    \E u \in Tasks \ {t} : pc[u] \in {"saveDelete", "saveInsert", "forgetSeen", "forgetCommit"}

\* ------------------------------------------------------ the lock table
\* a lookup that never finds the handle of the key
LiveHandleNone(key) == 0

\* locks.get(&key): the handle of the key if its weak entry still upgrades
LiveHandle(key) == member_locks[key]

\* tasks holding an Arc of handle h
Refs(h) == {t \in Tasks : user_lock[t] = h}

\* Arc::new(Mutex::new(())): a handle nobody refers to
FreshHandle == CHOOSE h \in HandleIds : Refs(h) = {} /\ \A g \in HandleIds : Refs(g) = {} => h <= g

\* a handle that excludes nobody
HandleFreeAlways(h) == TRUE

\* user_lock.lock().await can complete
HandleFree(h) == handleOwner[h] = 0

\* the comparison of line 187 with <= in place of <
RejoinedOrSame(ls, m) == ls <= m.joined_at

\* observe_member line 187
Rejoined(ls, m) == ls < m.joined_at

\* a role loop without the test of line 144
SkipNone(rs, have) == rs

\* the rest of the role loop from the first role that line 144 lets through
RECURSIVE SkipPresent(_, _)
SkipPresent(rs, have) ==
    IF rs = <<>> THEN <<>>
    ELSE IF Contains(have, Head(rs)) THEN SkipPresent(Tail(rs), have)
    ELSE rs

\* positions inside the critical section of do_locked
InCS == {"dropReg", "lastSeen", "restoreRead", "restoring", "granting", "saveClock",
         "saveReplace", "saveDelete", "saveInsert", "unlock"}

\* what the history can keep of a committed observe: nothing; the roles whose
\* request failed; the snapshot it was called with; the calls it raced with
Watches == {"none", "failed", "same", "peers", "bulk"}

\* ---------------------------------------------------------------- Init
\* Handler::new on an empty data.db; no handler is running
Init ==
    /\ config \in Configs
    /\ now = 0
    /\ tbl_last_seen = {}
    /\ tbl_roles = [k \in Keys |-> <<>>]
    /\ dataHolder = 0
    /\ regHolder = 0
    /\ member_locks = [k \in Keys |-> 0]
    /\ handleOwner = [h \in HandleIds |-> 0]
    /\ user_lock = [t \in Tasks |-> 0]
    /\ branch = [t \in Tasks |-> ""]
    /\ pc = [t \in Tasks |-> "idle"]
    /\ guilds = [t \in Tasks |-> <<>>]
    /\ roster = [t \in Tasks |-> <<>>]
    /\ fetched = [t \in Tasks |-> 0]
    /\ member = [t \in Tasks |-> NoMember]
    /\ seen = [t \in Tasks |-> None]
    /\ persisted = [t \in Tasks |-> <<>>]
    /\ todo = [t \in Tasks |-> <<>>]
    /\ role = [t \in Tasks |-> 0]
    /\ stamp = [t \in Tasks |-> 0]
    /\ grants = [t \in Tasks |-> <<>>]
    /\ failed = [t \in Tasks |-> {}]
    /\ incoming = [t \in Tasks |-> <<>>]
    /\ pre = [t \in Tasks |-> <<>>]
    /\ before = [t \in Tasks |-> 0]
    /\ snap = [t \in Tasks |-> NoSnap]
    /\ dirtyRead = FALSE
    /\ prev = None
    /\ watch \in Watches

\* the wall clock advances, up to limit
Tick(limit) ==
    /\ now < limit
    /\ now' = now + 1
    /\ UNCHANGED <<config, watch, storeVars, lockVars, pc, bulkVars, obsVars, histVars>>

\* ------------------------------------------------------ event handlers
\* the history of a ready or guild_create handler that is to sync the guilds
\* kept: no roster fetched, no member saved
BulkStarted(kept) ==
    IF watch = "bulk"
    THEN Some([batch |-> kept, fetches |-> <<>>, whole |-> <<>>, saved |-> <<>>])
    ELSE prev

\* the history once get_guild_members of guild g returned: members if ok
BulkFetched(g, ok, members) ==
    IF watch = "bulk" /\ IsSome(prev)
    THEN Some([prev[1] EXCEPT !.fetches = Append(@, [guild |-> g, ok |-> ok]),
                              !.whole = members, !.saved = <<>>])
    ELSE prev

\* observe_member is entered with SimpleMember m: next is do_locked
CallObserve(t, m) ==
    /\ member' = [member EXCEPT ![t] = m]
    /\ incoming' = [incoming EXCEPT ![t] = m.roles]
    /\ pc' = [pc EXCEPT ![t] = "lockReg"]

\* EventHandler::guild_member_addition for Member m, who joined no later than now
GuildMemberAddition(t, m) ==
    /\ pc[t] = "idle"
    /\ m.joined_at <= now
    /\ IF filter_allow_server(m.server_id)
       THEN /\ CallObserve(t, m)
            /\ UNCHANGED <<config, watch, now, storeVars, lockVars, bulkVars, seen, persisted, todo,
                           role, stamp, grants, failed, pre, before, snap,
                           dirtyRead, prev>>
       ELSE UNCHANGED vars

\* EventHandler::guild_member_update for GuildMemberUpdateEvent update, of a
\* member who joined no later than now
GuildMemberUpdate(t, update) ==
    /\ pc[t] = "idle"
    /\ update.joined_at <= now
    /\ IF filter_allow_server(update.server_id)
       THEN /\ CallObserve(t, update)
            /\ UNCHANGED <<config, watch, now, storeVars, lockVars, bulkVars, seen, persisted, todo,
                           role, stamp, grants, failed, pre, before, snap,
                           dirtyRead, prev>>
       ELSE UNCHANGED vars

\* EventHandler::guild_delete for UnavailableGuild { id: g, unavailable }
GuildDelete(t, g, unavailable) ==
    /\ pc[t] = "idle"
    /\ IF ~unavailable
       THEN /\ guilds' = [guilds EXCEPT ![t] = <<g>>]
            /\ pc' = [pc EXCEPT ![t] = "forgetRoles"]
            /\ UNCHANGED <<config, watch, now, storeVars, lockVars, roster, fetched,
                           obsVars, histVars>>
       ELSE UNCHANGED vars

\* EventHandler::guild_create for Guild { id: g }
GuildCreate(t, g) ==
    /\ pc[t] = "idle"
    /\ IF filter_allow_server(g)
       THEN /\ guilds' = [guilds EXCEPT ![t] = <<g>>]
            /\ pc' = [pc EXCEPT ![t] = "fetch"]
            /\ prev' = BulkStarted(<<g>>)
            /\ UNCHANGED <<config, watch, now, storeVars, lockVars, roster, fetched,
                           obsVars, grants, failed, incoming, pre, before, snap,
                           dirtyRead>>
       ELSE UNCHANGED vars

\* EventHandler::ready for Ready { guilds: gs }: the guilds that pass the filter
Ready(t, gs) ==
    /\ pc[t] = "idle"
    /\ LET kept == SelectSeqBy(gs, {g \in Guilds : filter_allow_server(g)})
       IN /\ guilds' = [guilds EXCEPT ![t] = kept]
          /\ pc' = [pc EXCEPT ![t] = IF kept = <<>> THEN "idle" ELSE "fetch"]
          /\ prev' = BulkStarted(kept)
          /\ UNCHANGED <<config, watch, now, storeVars, lockVars, roster, fetched,
                         obsVars, grants, failed, incoming, pre, before, snap,
                         dirtyRead>>

\* ---------------------------------------------------------- save_guild
\* a save_guild that returns after the first member of the roster
PcAfterFirst(gs, ro) == IF Tail(gs) # <<>> THEN "fetch" ELSE "idle"

\* where the handler goes once the roster ro of the first guild of gs is
\* exhausted or its fetch failed: the next guild of ready's loop, or the end
GuildsAfter(gs, ro) == IF ro # <<>> THEN gs ELSE Tail(gs)

PcAfter(gs, ro) ==
    IF ro # <<>> THEN "nextMember"
    ELSE IF Tail(gs) # <<>> THEN "fetch" ELSE "idle"

\* get_guild_members returned Ok(members), a roster of R
GetGuildMembersOk(t, R) ==
    /\ pc[t] = "fetch"
    /\ \E members \in R :
         /\ roster' = [roster EXCEPT ![t] = members]
         /\ fetched' = [fetched EXCEPT ![t] = IF members = <<>> THEN 0 ELSE now]
         /\ guilds' = [guilds EXCEPT ![t] = GuildsAfter(@, members)]
         /\ pc' = [pc EXCEPT ![t] = PcAfter(guilds[t], members)]
         /\ prev' = BulkFetched(Head(guilds[t]), TRUE, members)
    /\ UNCHANGED <<config, watch, now, storeVars, lockVars, obsVars, grants, failed,
                   incoming, pre, before, snap, dirtyRead>>

\* get_guild_members returned Err(e): save_guild returns it, the caller logs it
GetGuildMembersErr(t) ==
    /\ pc[t] = "fetch"
    /\ guilds' = [guilds EXCEPT ![t] = GuildsAfter(@, <<>>)]
    /\ pc' = [pc EXCEPT ![t] = PcAfter(guilds[t], <<>>)]
    /\ prev' = BulkFetched(Head(guilds[t]), FALSE, <<>>)
    /\ UNCHANGED <<config, watch, now, storeVars, lockVars, roster, fetched, obsVars,
                   grants, failed, incoming, pre, before, snap, dirtyRead>>

\* the loop of save_guild reaches the next member of the roster; the member's
\* fields were fixed when the roster was fetched and are drawn here, its
\* roles from L
NextMember(t, L) ==
    /\ pc[t] = "nextMember"
    /\ \E j \in 0..fetched[t], rs \in L :
         CallObserve(t, [user_id |-> Head(roster[t]), server_id |-> Head(guilds[t]),
                         joined_at |-> j, roles |-> rs])
    /\ roster' = [roster EXCEPT ![t] = Tail(@)]
    /\ UNCHANGED <<config, watch, now, storeVars, lockVars, guilds, fetched, seen, persisted, todo,
                   role, stamp, grants, failed, pre, before, snap, dirtyRead, prev>>

\* ----------------------------------------------------------- do_locked
\* line 244: self.member_locks.lock().await
LockRegistry(t) ==
    /\ pc[t] = "lockReg"
    /\ regHolder = 0
    /\ regHolder' = t
    /\ pc' = [pc EXCEPT ![t] = "lookup"]
    /\ UNCHANGED <<config, watch, now, storeVars, member_locks, handleOwner, user_lock,
                   branch, bulkVars, obsVars, histVars>>

\* the Some branch without the drop(locks) of line 247: the registry guard
\* lives on while the caller waits for the handle
LookupLiveKeep(t) ==
    /\ pc[t] = "lookup"
    /\ LiveHandle(KeyOf(member[t])) # 0
    /\ user_lock' = [user_lock EXCEPT ![t] = LiveHandle(KeyOf(member[t]))]
    /\ branch' = [branch EXCEPT ![t] = "found"]
    /\ pc' = [pc EXCEPT ![t] = "waitHandle"]
    /\ UNCHANGED <<config, watch, now, storeVars, regHolder, member_locks, handleOwner,
                   bulkVars, obsVars, histVars>>

\* lines 246-247: locks.get(&key) upgrades a live handle; drop(locks)
LookupLive(t) ==
    /\ pc[t] = "lookup"
    /\ LiveHandle(KeyOf(member[t])) # 0
    /\ user_lock' = [user_lock EXCEPT ![t] = LiveHandle(KeyOf(member[t]))]
    /\ branch' = [branch EXCEPT ![t] = "found"]
    /\ regHolder' = 0
    /\ pc' = [pc EXCEPT ![t] = "waitHandle"]
    /\ UNCHANGED <<config, watch, now, storeVars, member_locks, handleOwner, bulkVars,
                   obsVars, histVars>>

\* line 248: user_lock.lock().await
LockHandle(t) ==
    /\ pc[t] = "waitHandle"
    /\ HandleFree(user_lock[t])
    /\ handleOwner' = [handleOwner EXCEPT ![user_lock[t]] = t]
    /\ pc' = [pc EXCEPT ![t] = "lastSeen"]
    /\ UNCHANGED <<config, watch, now, storeVars, regHolder, member_locks, user_lock,
                   branch, bulkVars, obsVars, histVars>>

\* lines 251-252: no live handle: Arc::new(Mutex::new(())); locks.insert
InsertHandle(t) ==
    /\ pc[t] = "lookup"
    /\ LiveHandle(KeyOf(member[t])) = 0
    /\ member_locks' = [member_locks EXCEPT ![KeyOf(member[t])] = FreshHandle]
    /\ user_lock' = [user_lock EXCEPT ![t] = FreshHandle]
    /\ branch' = [branch EXCEPT ![t] = "created"]
    /\ pc' = [pc EXCEPT ![t] = "lockFresh"]
    /\ UNCHANGED <<config, watch, now, storeVars, regHolder, handleOwner, bulkVars,
                   obsVars, histVars>>

\* line 253: user_lock.lock().await on the handle just inserted
LockFresh(t) ==
    /\ pc[t] = "lockFresh"
    /\ HandleFree(user_lock[t])
    /\ handleOwner' = [handleOwner EXCEPT ![user_lock[t]] = t]
    /\ pc' = [pc EXCEPT ![t] = "dropReg"]
    /\ UNCHANGED <<config, watch, now, storeVars, regHolder, member_locks, user_lock,
                   branch, bulkVars, obsVars, histVars>>

\* line 254: drop(locks)
DropRegistry(t) ==
    /\ pc[t] = "dropReg"
    /\ regHolder' = 0
    /\ pc' = [pc EXCEPT ![t] = "lastSeen"]
    /\ UNCHANGED <<config, watch, now, storeVars, member_locks, handleOwner, user_lock,
                   branch, bulkVars, obsVars, histVars>>

\* an end of the branch that leaks the guard _lock
UnlockLeak(t) ==
    /\ pc[t] = "unlock"
    /\ pc' = [pc EXCEPT ![t] = "dropRef"]
    /\ UNCHANGED <<config, watch, now, storeVars, lockVars, bulkVars, obsVars, histVars>>

\* end of the branch: the guard _lock is dropped
Unlock(t) ==
    /\ pc[t] = "unlock"
    /\ handleOwner' = [handleOwner EXCEPT ![user_lock[t]] = 0]
    /\ pc' = [pc EXCEPT ![t] = "dropRef"]
    /\ UNCHANGED <<config, watch, now, storeVars, regHolder, member_locks, user_lock,
                   branch, bulkVars, obsVars, histVars>>

\* then the Arc user_lock is dropped: with the last Arc gone the weak entry
\* of the table no longer upgrades. do_locked and observe_member return.
DropRef(t) ==
    /\ pc[t] = "dropRef"
    /\ user_lock' = [user_lock EXCEPT ![t] = 0]
    /\ member_locks' =
         [k \in Keys |-> IF member_locks[k] = user_lock[t] /\ Refs(user_lock[t]) = {t}
                         THEN 0 ELSE member_locks[k]]
    /\ branch' = [branch EXCEPT ![t] = ""]
    /\ member' = [member EXCEPT ![t] = NoMember]
    /\ guilds' = [guilds EXCEPT ![t] = IF @ = <<>> THEN @ ELSE GuildsAfter(@, roster[t])]
    /\ fetched' = [fetched EXCEPT ![t] = IF roster[t] = <<>> THEN 0 ELSE @]
    /\ pc' = [pc EXCEPT ![t] = IF guilds[t] = <<>> THEN "idle"
                               ELSE PcAfter(guilds[t], roster[t])]
    /\ UNCHANGED <<config, watch, now, storeVars, regHolder, handleOwner, roster, seen, persisted, todo,
                   role, stamp, histVars>>

\* ------------------------------------------- observe_member's closure
\* an observe_member that saves only after a restoration
AfterLastSeenSkip(ls, m) ==
    IF IsSome(ls) /\ ls[1] < m.joined_at THEN "restoreRead" ELSE "unlock"

\* where observe_member goes after last_seen returned ls (lines 186-193)
AfterLastSeen(ls, m) ==
    IF IsSome(ls) /\ Rejoined(ls[1], m) THEN "restoreRead" ELSE "saveClock"

\* line 186: self.last_seen(member).await, under the data lock
LastSeen(t) ==
    /\ pc[t] = "lastSeen"
    /\ DataFree
    /\ seen' = [seen EXCEPT ![t] = last_seen(member[t])]
    /\ pre' = [pre EXCEPT ![t] = SelectRoles(member[t].user_id, member[t].server_id)]
    /\ dirtyRead' = (dirtyRead \/ OpenTransaction(t))
    /\ pc' = [pc EXCEPT ![t] = AfterLastSeen(last_seen(member[t]), member[t])]
    /\ before' = [before EXCEPT ![t] =
                    IF AfterLastSeen(last_seen(member[t]), member[t]) = "saveClock"
                    THEN now ELSE @]
    /\ UNCHANGED <<config, watch, now, storeVars, lockVars, bulkVars, member, persisted, todo,
                   role, stamp, grants, failed, incoming, snap, prev>>

\* restore_member lines 130-141: lock the data, read the persisted roles
RestoreRead(t) ==
    /\ pc[t] = "restoreRead"
    /\ DataFree
    /\ dataHolder' = t
    /\ persisted' = [persisted EXCEPT ![t] =
                       SelectRoles(member[t].user_id, member[t].server_id)]
    /\ todo' = [todo EXCEPT ![t] = SelectRoles(member[t].user_id, member[t].server_id)]
    /\ dirtyRead' = (dirtyRead \/ OpenTransaction(t))
    /\ pc' = [pc EXCEPT ![t] = "restoring"]
    /\ UNCHANGED <<config, watch, now, tbl_last_seen, tbl_roles, lockVars, bulkVars, member,
                   seen, role, stamp, grants, failed, incoming, pre, before, snap, prev>>

\* lines 143-150: the loop skips the roles the member has and sends the
\* request for the next one it lacks; at the end of the loop restore_member
\* returns and drops its connection guard
RestoreStep(t) ==
    /\ pc[t] = "restoring"
    /\ LET rest == SkipPresent(todo[t], member[t].roles)
       IN IF rest = <<>>
          THEN /\ dataHolder' = 0
               /\ todo' = [todo EXCEPT ![t] = <<>>]
               /\ before' = [before EXCEPT ![t] = now]
               /\ pc' = [pc EXCEPT ![t] = "saveClock"]
               /\ UNCHANGED <<role, grants>>
          ELSE /\ role' = [role EXCEPT ![t] = Head(rest)]
               /\ todo' = [todo EXCEPT ![t] = Tail(rest)]
               /\ grants' = [grants EXCEPT ![t] = Append(@, Head(rest))]
               /\ pc' = [pc EXCEPT ![t] = "granting"]
               /\ UNCHANGED <<dataHolder, before>>
    /\ UNCHANGED <<config, watch, now, tbl_last_seen, tbl_roles, lockVars, bulkVars, member,
                   seen, persisted, stamp, failed, incoming, pre, snap, dirtyRead, prev>>

\* lines 160-162: add_member_role returned Ok: member.roles.push(role)
GrantOk(t) ==
    /\ pc[t] = "granting"
    /\ member' = [member EXCEPT ![t].roles = Append(@, role[t])]
    /\ role' = [role EXCEPT ![t] = 0]
    /\ pc' = [pc EXCEPT ![t] = "restoring"]
    /\ UNCHANGED <<config, watch, now, storeVars, lockVars, bulkVars, seen, persisted, todo, stamp,
                   histVars>>

\* an Err branch that leaves the loop
RolesAfterErrNone(rest) == <<>>

\* lines 152-159: the Err branch only prints: the loop goes on with the roles
\* it had still to visit
RolesAfterErr(rest) == rest

\* lines 152-159: add_member_role returned Err: the error is printed
GrantErr(t) ==
    /\ pc[t] = "granting"
    /\ failed' = [failed EXCEPT ![t] = @ \cup {role[t]}]
    /\ role' = [role EXCEPT ![t] = 0]
    /\ todo' = [todo EXCEPT ![t] = RolesAfterErr(@)]
    /\ pc' = [pc EXCEPT ![t] = "restoring"]
    /\ UNCHANGED <<config, watch, now, storeVars, lockVars, bulkVars, member, seen, persisted,
                   stamp, grants, incoming, pre, before, snap, dirtyRead, prev>>

\* --------------------------------------------------------- save_member
\* a save_member that writes the epoch
SavedTimeEpoch(t) == 0

\* a save_member that writes the join time of the member
SavedTimeJoined(t) == member[t].joined_at

\* the time save_member writes (lines 99-100, 107)
SavedTime(t) == stamp[t]

\* lines 99-100: SystemTime::now()
SaveReadClock(t) ==
    /\ pc[t] = "saveClock"
    /\ stamp' = [stamp EXCEPT ![t] = now]
    /\ pc' = [pc EXCEPT ![t] = "saveReplace"]
    /\ UNCHANGED <<config, watch, now, storeVars, lockVars, bulkVars, member, seen, persisted, todo,
                   role, histVars>>

\* lines 102-108: lock the data, open the transaction, REPLACE INTO last_seen
SaveReplace(t) ==
    /\ pc[t] = "saveReplace"
    /\ DataFree
    /\ dataHolder' = t
    /\ tbl_last_seen' = ReplaceLastSeen(tbl_last_seen, member[t].user_id,
                                         member[t].server_id, SavedTime(t))
    /\ pc' = [pc EXCEPT ![t] = "saveDelete"]
    /\ UNCHANGED <<config, watch, now, tbl_roles, lockVars, bulkVars, obsVars, histVars>>

\* lines 110-113: DELETE FROM roles for the key
SaveDelete(t) ==
    /\ pc[t] = "saveDelete"
    /\ tbl_roles' = DeleteRoles(tbl_roles, member[t].user_id, member[t].server_id)
    /\ todo' = [todo EXCEPT ![t] = member[t].roles]
    /\ pc' = [pc EXCEPT ![t] = "saveInsert"]
    /\ UNCHANGED <<config, watch, now, tbl_last_seen, dataHolder, lockVars, bulkVars, member,
                   seen, persisted, role, stamp, histVars>>

\* lines 115-120: INSERT INTO roles for the next role of member.roles
SaveInsert(t) ==
    /\ pc[t] = "saveInsert"
    /\ todo[t] # <<>>
    /\ tbl_roles' = InsertRole(tbl_roles, member[t].user_id, member[t].server_id,
                               Head(todo[t]))
    /\ todo' = [todo EXCEPT ![t] = Tail(@)]
    /\ UNCHANGED <<config, watch, now, tbl_last_seen, dataHolder, lockVars, pc, bulkVars,
                   member, seen, persisted, role, stamp, histVars>>

\* positions of a task inside observe_member, before its save commits
Observing == {"lockReg", "lookup", "waitHandle", "lockFresh", "dropReg", "lastSeen",
              "restoreRead", "restoring", "granting", "saveClock", "saveReplace",
              "saveDelete", "saveInsert"}

\* the tasks inside an observe_member call for the key of t, other than t
Peers(t) ==
    {u \in Tasks \ {t} : pc[u] \in Observing /\ KeyOf(member[u]) = KeyOf(member[t])}

\* what the history keeps of the observe of t when its save commits
Committed(t) ==
    CASE watch = "failed" ->
           IF failed[t] = {} THEN None
           ELSE Some([user_id |-> member[t].user_id, server_id |-> member[t].server_id,
                      failed |-> failed[t]])
      [] watch = "same" ->
           Some([user_id |-> member[t].user_id, server_id |-> member[t].server_id,
                 joined_at |-> member[t].joined_at, roles |-> incoming[t],
                 grants |-> grants[t]])
      [] watch = "peers" ->
           IF Peers(t) = {} \/ grants[t] = <<>> THEN None
           ELSE Some([user_id |-> member[t].user_id, server_id |-> member[t].server_id,
                      joined_at |-> member[t].joined_at, seen |-> seen[t],
                      grants |-> grants[t], peers |-> Peers(t)])
      [] watch = "bulk" ->
           IF IsSome(prev) /\ guilds[t] # <<>>
           THEN Some([prev[1] EXCEPT !.saved =
                        Append(@, [user_id |-> member[t].user_id,
                                   failed |-> failed[t] # {}])])
           ELSE prev
      [] OTHER -> None

\* line 122: transaction.commit(); save_member returns and drops the guard.
\* The closure of observe_member is over: what it no longer reads is cleared.
SaveCommit(t) ==
    /\ pc[t] = "saveInsert"
    /\ todo[t] = <<>>
    /\ dataHolder' = 0
    /\ prev' = Committed(t)
    /\ member' = [member EXCEPT ![t].joined_at = 0, ![t].roles = <<>>]
    /\ seen' = [seen EXCEPT ![t] = None]
    /\ persisted' = [persisted EXCEPT ![t] = <<>>]
    /\ stamp' = [stamp EXCEPT ![t] = 0]
    /\ grants' = [grants EXCEPT ![t] = <<>>]
    /\ failed' = [failed EXCEPT ![t] = {}]
    /\ incoming' = [incoming EXCEPT ![t] = <<>>]
    /\ pre' = [pre EXCEPT ![t] = <<>>]
    /\ before' = [before EXCEPT ![t] = 0]
    /\ pc' = [pc EXCEPT ![t] = "unlock"]
    /\ UNCHANGED <<config, watch, now, tbl_last_seen, tbl_roles, lockVars, bulkVars, todo,
                   role, snap, dirtyRead>>

\* -------------------------------------------------------- forget_guild
\* the rows of the guilds other than server_id
OtherRows(server_id) ==
    [last_seen |-> {x \in tbl_last_seen : x.server_id # server_id},
     roles |-> [k \in {q \in Keys : q[2] # server_id} |-> tbl_roles[k]]]

\* the guild has a row in either table
HasRows(server_id) ==
    \/ \E x \in tbl_last_seen : x.server_id = server_id
    \/ \E k \in Keys : k[2] = server_id /\ tbl_roles[k] # <<>>

\* lines 212-218: lock the data, open the transaction, DELETE FROM roles
ForgetRoles(t) ==
    /\ pc[t] = "forgetRoles"
    /\ DataFree
    /\ dataHolder' = t
    /\ snap' = [snap EXCEPT ![t] = [last_seen |-> OtherRows(Head(guilds[t])).last_seen,
                                     roles |-> OtherRows(Head(guilds[t])).roles,
                                     had |-> HasRows(Head(guilds[t]))]]
    /\ dirtyRead' = (dirtyRead \/ OpenTransaction(t))
    /\ prev' = None
    /\ tbl_roles' = DeleteRolesOfServer(tbl_roles, Head(guilds[t]))
    /\ pc' = [pc EXCEPT ![t] = "forgetSeen"]
    /\ UNCHANGED <<config, watch, now, tbl_last_seen, lockVars, bulkVars, obsVars, grants,
                   failed, incoming, pre, before>>

\* lines 220-223: DELETE FROM last_seen
ForgetSeen(t) ==
    /\ pc[t] = "forgetSeen"
    /\ tbl_last_seen' = DeleteLastSeenOfServer(tbl_last_seen, Head(guilds[t]))
    /\ pc' = [pc EXCEPT ![t] = "forgetCommit"]
    /\ UNCHANGED <<config, watch, now, tbl_roles, dataHolder, lockVars, bulkVars, obsVars,
                   histVars>>

\* line 225: transaction.commit(); forget_guild returns and drops the guard
ForgetCommit(t) ==
    /\ pc[t] = "forgetCommit"
    /\ dataHolder' = 0
    /\ snap' = [snap EXCEPT ![t] = NoSnap]
    /\ guilds' = [guilds EXCEPT ![t] = <<>>]
    /\ pc' = [pc EXCEPT ![t] = "idle"]
    /\ UNCHANGED <<config, watch, now, tbl_last_seen, tbl_roles, lockVars, roster, fetched,
                   obsVars, grants, failed, incoming, pre, before, dirtyRead, prev>>

\* ---------------------------------------------------------------- Next
\* the SimpleMember values a gateway event can carry
Snapshots ==
    [user_id : Users, server_id : Guilds, joined_at : Times, roles : RoleLists]

\* a member event arrives and task t runs its handler
ArriveMember(t, S) ==
    \/ \E m \in S : GuildMemberAddition(t, m)
    \/ \E update \in S : GuildMemberUpdate(t, update)

\* a guild is torn down and task t runs the handler
ArriveDelete(t, G) ==
    \E g \in G, unavailable \in BOOLEAN : GuildDelete(t, g, unavailable)

\* a gateway event arrives and task t runs its handler
Arrive(t, S, G) ==
    \/ ArriveMember(t, S)
    \/ ArriveDelete(t, G)

ArriveBulk(t) ==
    \/ \E g \in Guilds : GuildCreate(t, g)
    \/ \E gs \in GuildLists : Ready(t, gs)

\* task t takes the next step of save_guild
RunBulk(t, R, L) ==
    \/ GetGuildMembersOk(t, R)
    \/ GetGuildMembersErr(t)
    \/ NextMember(t, L)

\* task t takes the next step of do_locked for a key no other caller is at
RunLock(t) ==
    \/ LockRegistry(t)
    \/ InsertHandle(t)
    \/ LockFresh(t)
    \/ DropRegistry(t)
    \/ Unlock(t)
    \/ DropRef(t)

\* task t takes the next step of do_locked for a key that has a live handle
RunContended(t) ==
    \/ LookupLive(t)
    \/ LockHandle(t)

\* task t takes the next step of the closure of observe_member
RunObserve(t) ==
    \/ LastSeen(t)
    \/ RestoreRead(t)
    \/ RestoreStep(t)
    \/ GrantOk(t)
    \/ GrantErr(t)
    \/ SaveReadClock(t)
    \/ SaveReplace(t)
    \/ SaveDelete(t)
    \/ SaveInsert(t)
    \/ SaveCommit(t)

\* task t takes the next step of forget_guild
RunForget(t) ==
    \/ ForgetRoles(t)
    \/ ForgetSeen(t)
    \/ ForgetCommit(t)

\* the whole system: every task handles any event
Next ==
    \/ Tick(MaxTime)
    \/ \E t \in Tasks : Arrive(t, Snapshots, Guilds)
    \/ \E t \in Tasks : ArriveBulk(t)
    \/ \E t \in Tasks : RunBulk(t, Rosters, RoleLists)
    \/ \E t \in Tasks : RunLock(t)
    \/ \E t \in Tasks : RunContended(t)
    \/ \E t \in Tasks : RunObserve(t)
    \/ \E t \in Tasks : RunForget(t)

Spec == Init /\ [][Next]_vars

\* One handler at a time: task 1 handles every event, of any kind, for
\* user 1 in any guild, under any configuration. It never meets a live handle.
SeqSnapshots == {m \in Snapshots : m.user_id = 1}

SeqRosters == {ro \in Rosters : Range(ro) \subseteq {1}}

NextSeq ==
    \/ Tick(MaxTime)
    \/ Arrive(1, SeqSnapshots, Guilds)
    \/ ArriveBulk(1)
    \/ RunBulk(1, SeqRosters, RoleLists)
    \/ RunLock(1)
    \/ RunObserve(1)
    \/ RunForget(1)

InitSeq == Init /\ watch = "none"

SpecSeq == InitSeq /\ [][NextSeq]_vars

\* the same, with no restriction configured, keeping of each committed
\* observe the roles whose request failed
InitRetry == Init /\ config = None /\ watch = "failed"

SpecRetry == InitRetry /\ [][NextSeq]_vars

\* the same, keeping of each committed observe the snapshot it was called with
InitTwice == Init /\ config = None /\ watch = "same"

SpecTwice == InitTwice /\ [][NextSeq]_vars

\* Racing handlers: every task handles member events of one member and the
\* teardown of any guild, with no restriction configured.
RaceSnapshots == {m \in Snapshots : m.user_id = 1 /\ m.server_id = 1}

NextRace ==
    \/ Tick(MaxTime)
    \/ \E t \in Tasks : Arrive(t, RaceSnapshots, Guilds)
    \/ \E t \in Tasks : RunLock(t)
    \/ \E t \in Tasks : RunContended(t)
    \/ \E t \in Tasks : RunObserve(t)
    \/ \E t \in Tasks : RunForget(t)

InitRace == Init /\ config = None /\ watch = "none"

SpecRace == InitRace /\ [][NextRace]_vars

\* the same, keeping of each committed observe that restored roles the calls
\* for the same key that were running when it committed
InitDup == Init /\ config = None /\ watch = "peers"

SpecDup == InitDup /\ [][NextRace]_vars

\* Handlers of different members: task 1 handles the events of a member of
\* guild 1; task 2 handles the events of a member of guild 2 that has no
\* role, and the teardown of any guild. No handle is ever contended.
WriterSnapshots == {m \in Snapshots : m.user_id = 1 /\ m.server_id = 1}

ReaderSnapshots ==
    {m \in Snapshots : m.user_id = 1 /\ m.server_id = 2 /\ m.roles = <<>>}

NextShared ==
    \/ Tick(MaxTime)
    \/ ArriveMember(1, WriterSnapshots)
    \/ ArriveMember(2, ReaderSnapshots)
    \/ ArriveDelete(2, Guilds)
    \/ \E t \in Tasks : RunLock(t)
    \/ \E t \in Tasks : RunObserve(t)
    \/ RunForget(2)

SpecShared == InitRace /\ [][NextShared]_vars

\* Bulk syncs, one at a time: task 1 handles ready and guild_create for
\* rosters of any users whose members have at most role 1, with no
\* restriction configured, keeping of the
\* running sync the guilds it is to fetch, the fetches it made, the roster
\* it fetched last and the members of that roster it saved.
BulkRoleLists == {rs \in RoleLists : Range(rs) \subseteq {1}}

NextBulk ==
    \/ Tick(BulkTime)
    \/ ArriveBulk(1)
    \/ RunBulk(1, Rosters, BulkRoleLists)
    \/ RunLock(1)
    \/ RunObserve(1)

InitBulk == Init /\ config = None /\ watch = "bulk"

SpecBulk == InitBulk /\ [][NextBulk]_vars

\* Racing handlers of member events with at most role 1 and of the teardown
\* of guild 1, under a fair scheduler: a handler that can take a step
\* infinitely often takes one (the tokio mutexes are FIFO), and a pending
\* add_member_role request returns.
LiveSnapshots == {m \in RaceSnapshots : Range(m.roles) \subseteq {1}}

\* task t takes the next step of the handler it runs
Step(t) == RunLock(t) \/ RunContended(t) \/ RunObserve(t) \/ RunForget(t)

NextLive ==
    \/ Tick(MaxTime)
    \/ \E t \in Tasks : Arrive(t, LiveSnapshots, {1})
    \/ \E t \in Tasks : Step(t)

SpecLive == InitRace /\ [][NextLive]_vars /\ \A t \in Tasks : SF_vars(Step(t))

\* ============================================================== claims
\* positions after last_seen was read and before the save commits
AfterRead == {"restoreRead", "restoring", "granting", "saveClock", "saveReplace",
              "saveDelete", "saveInsert"}

\* positions inside restore_member
InRestore == {"restoreRead", "restoring", "granting"}

\* positions inside save_member
InSave == {"saveClock", "saveReplace", "saveDelete", "saveInsert"}

\* positions inside an open write transaction
InTransaction == {"saveDelete", "saveInsert", "forgetSeen", "forgetCommit"}

\* save_member has executed every statement and is about to commit
SaveDone(t) == pc[t] = "saveInsert" /\ todo[t] = <<>>

\* the observe of t found a last_seen earlier than the join time of its member
Triggered(t) == IsSome(seen[t]) /\ seen[t][1] < member[t].joined_at

\* the observe of t has requested each role of P that the incoming snapshot
\* lacks exactly once, and no other role
RequestedOnce(t, P) ==
    \A r \in Roles :
        Count(grants[t], r) = IF r \in P \ Range(incoming[t]) THEN 1 ELSE 0

SameKey(t, u) == KeyOf(member[t]) = KeyOf(member[u])

\* prev is an observe of the key of t
PrevSameKey(t) ==
    /\ IsSome(prev)
    /\ prev[1].user_id = member[t].user_id
    /\ prev[1].server_id = member[t].server_id

\* C1: the critical sections of do_locked for one key never overlap: no two
\* tasks are at the same time between acquiring and releasing the handle of
\* the same key, so the store reads, the requests and the save of two
\* observes of that key are never interleaved.
C1_MutualExclusion ==
    \A t, u \in Tasks :
        (t # u /\ pc[t] \in InCS /\ pc[u] \in InCS) => ~SameKey(t, u)

\* one observe waits for the handle while another observe of the same key is
\* suspended in a request inside its critical section
C1_Witness ==
    \E t, u \in Tasks :
        /\ t # u /\ SameKey(t, u)
        /\ pc[t] = "granting"
        /\ pc[u] = "waitHandle"

\* C2 as claimed: when the key has persisted roles P and last_seen T0 at the
\* moment the observe reads last_seen, and joined_at > T0, the observe has
\* requested, by the time it saves, each role of P \ R exactly once and no
\* other; and if no request failed the persisted roles after the save are
\* P \cup R.
C2_Original ==
    \A t \in Tasks :
        (pc[t] \in InSave /\ Triggered(t)) =>
            /\ RequestedOnce(t, Range(pre[t]))
            /\ role[t] = 0
            /\ (SaveDone(t) /\ failed[t] = {}) =>
                  Range(SelectRoles(member[t].user_id, member[t].server_id))
                      = Range(pre[t]) \cup Range(incoming[t])

\* C2 amended: the same with P the role set that restore_member reads, which
\* is the set persisted when last_seen was read unless a forget_guild of the
\* guild committed in between, and is empty then.
C2_Restore ==
    \A t \in Tasks :
        (pc[t] \in InSave /\ Triggered(t)) =>
            /\ persisted[t] = pre[t] \/ persisted[t] = <<>>
            /\ RequestedOnce(t, Range(persisted[t]))
            /\ role[t] = 0
            /\ (SaveDone(t) /\ failed[t] = {}) =>
                  Range(SelectRoles(member[t].user_id, member[t].server_id))
                      = Range(persisted[t]) \cup Range(incoming[t])

\* a rejoin with no role, every role persisted, every request granted
C2_Witness ==
    \E t \in Tasks :
        /\ SaveDone(t) /\ Triggered(t)
        /\ Range(persisted[t]) = Roles
        /\ incoming[t] = <<>>
        /\ failed[t] = {}
        /\ Len(grants[t]) = MaxRole

\* C3: an observe that found no last_seen row, or one not earlier than the
\* join time of its member, never enters restore_member and requests no role,
\* whatever the persisted and the incoming roles are.
C3_NoRestore ==
    \A t \in Tasks :
        (pc[t] \in AfterRead /\ ~Triggered(t)) =>
            /\ grants[t] = <<>>
            /\ pc[t] \notin InRestore

\* an update in place whose snapshot lacks persisted roles
C3_Witness ==
    \E t \in Tasks :
        /\ SaveDone(t)
        /\ IsSome(seen[t]) /\ member[t].joined_at <= seen[t][1]
        /\ pre[t] # <<>>
        /\ incoming[t] = <<>>

\* C4: when a request failed in the previous observe of the key, the next
\* observe of the key requests that role again.
C4_Retry ==
    \A t \in Tasks :
        (pc[t] \in InSave /\ PrevSameKey(t)) =>
            prev[1].failed \subseteq Range(grants[t])

\* the observe of t is called with the snapshot of the observe that
\* committed last
SameSnapshot(t) ==
    /\ PrevSameKey(t)
    /\ prev[1].joined_at = member[t].joined_at
    /\ prev[1].roles = incoming[t]

\* C5: an observe called with the snapshot of the observe that committed
\* immediately before it finds a last_seen not earlier than the join time,
\* does not enter restore_member and requests no role.
C5_Idempotent ==
    \A t \in Tasks :
        (pc[t] \in AfterRead /\ SameSnapshot(t)) =>
            /\ IsSome(seen[t]) /\ seen[t][1] >= member[t].joined_at
            /\ grants[t] = <<>>
            /\ pc[t] \notin InRestore

\* the second of two calls with one snapshot, the first of which restored roles
C5_Witness ==
    \E t \in Tasks :
        /\ SaveDone(t)
        /\ SameSnapshot(t)
        /\ prev[1].grants # <<>>

\* the observe of t was running when prev, an observe of the same key that
\* restored roles, committed
RacedWithPrev(t) ==
    /\ PrevSameKey(t)
    /\ t \in prev[1].peers

\* C6 as claimed: of two concurrent observes of one key that both carry a
\* joined_at later than the persisted last_seen, the second to enter the
\* critical section requests no role.
C6_Original ==
    \A t \in Tasks :
        (pc[t] \in AfterRead /\ RacedWithPrev(t)
            /\ prev[1].seen[1] < member[t].joined_at) =>
            /\ grants[t] = <<>>
            /\ pc[t] \notin InRestore

\* C6 amended: of two concurrent observes of one key that carry the same
\* joined_at, later than the persisted last_seen, the second to enter the
\* critical section requests no role, so that no role is requested twice
\* across the two.
C6_Duplicate ==
    \A t \in Tasks :
        (pc[t] \in AfterRead /\ RacedWithPrev(t)
            /\ prev[1].seen[1] < member[t].joined_at
            /\ prev[1].joined_at = member[t].joined_at) =>
            /\ grants[t] = <<>>
            /\ pc[t] \notin InRestore
            /\ \A r \in Roles : Count(prev[1].grants, r) + Count(grants[t], r) <= 1

\* the duplicate of a join event saves after the first restored the roles
C6_Witness ==
    \E t \in Tasks :
        /\ SaveDone(t)
        /\ RacedWithPrev(t)
        /\ prev[1].seen[1] < member[t].joined_at
        /\ prev[1].joined_at = member[t].joined_at
        /\ branch[t] = "found"

\* C7: when save_member has executed its statements, the roles query of the
\* key yields the roles of the snapshot as a set, and the last_seen query
\* yields the time save_member read from the clock, which is not earlier than
\* the clock at the call of save_member.
C7_RoundTrip ==
    \A t \in Tasks :
        SaveDone(t) =>
            /\ Range(SelectRoles(member[t].user_id, member[t].server_id))
                  = Range(member[t].roles)
            /\ last_seen(member[t]) = Some(stamp[t])
            /\ SelectLastSeen(member[t].user_id, member[t].server_id) = {stamp[t]}
            /\ stamp[t] >= before[t]

\* a save that replaces other roles, at a time later than the join
C7_Witness ==
    \E t \in Tasks :
        /\ SaveDone(t)
        /\ member[t].roles # <<>>
        /\ Range(pre[t]) # Range(member[t].roles)
        /\ pre[t] # <<>>
        /\ stamp[t] > member[t].joined_at

\* C8: no read of last_seen or of roles, and no forget_guild, starts inside
\* the open transaction of another task: a transaction holds the data lock
\* from its first statement to its commit.
C8_Atomic ==
    /\ ~dirtyRead
    /\ \A t \in Tasks : pc[t] \in InTransaction => dataHolder = t

\* a save has inserted a part of the new roles while the observe of another
\* key is about to read last_seen or roles
C8_Witness ==
    \E t, u \in Tasks :
        /\ t # u
        /\ pc[t] = "saveInsert"
        /\ todo[t] # <<>> /\ Len(todo[t]) < Len(member[t].roles)
        /\ pc[u] \in {"lastSeen", "restoreRead"}

\* C9: when forget_guild of a guild is about to commit, no table has a row
\* of that guild and the rows of every other guild are those the tables had
\* when the transaction began.
C9_Teardown ==
    \A t \in Tasks :
        pc[t] = "forgetCommit" =>
            /\ ~HasRows(Head(guilds[t]))
            /\ OtherRows(Head(guilds[t])).last_seen = snap[t].last_seen
            /\ OtherRows(Head(guilds[t])).roles = snap[t].roles

\* a teardown that deleted rows and left rows of another guild
C9_Witness ==
    \E t \in Tasks :
        /\ pc[t] = "forgetCommit"
        /\ snap[t].had
        /\ snap[t].last_seen # {}
        /\ \E k \in DOMAIN snap[t].roles : snap[t].roles[k] # <<>>

\* C10: no handler opens a write transaction or takes a member lock for a
\* guild that filter_allow_server rejects.
C10_Ignored ==
    \A t \in Tasks :
        /\ pc[t] \in {"forgetSeen", "forgetCommit"} =>
              filter_allow_server(Head(guilds[t]))
        /\ pc[t] \in Observing \cup {"unlock", "dropRef"} =>
              filter_allow_server(member[t].server_id)

\* C11: a task suspended in an add_member_role request does not hold the
\* guard of the data lock.
C11_NoStoreLock ==
    \A t \in Tasks : pc[t] = "granting" => dataHolder # t

\* C12: a failed request neither ends the role loop nor prevents the save:
\* once save_member runs, each persisted role the snapshot lacked has been
\* requested exactly once whether or not an earlier request failed; the
\* roles of the member that is saved are the incoming roles and the roles
\* whose request succeeded; and those are the role rows when the save is
\* about to commit.
C12_Isolated ==
    \A t \in Tasks :
        pc[t] \in InSave =>
            /\ failed[t] \subseteq Range(grants[t])
            /\ RequestedOnce(t, Range(persisted[t]))
            /\ Range(member[t].roles)
                  = Range(incoming[t]) \cup (Range(grants[t]) \ failed[t])
            /\ SaveDone(t) =>
                  Range(SelectRoles(member[t].user_id, member[t].server_id))
                      = Range(incoming[t]) \cup (Range(persisted[t]) \ failed[t])

\* the first request failed, a later one succeeded, and the save is done
C12_Witness ==
    \E t \in Tasks :
        /\ SaveDone(t)
        /\ Len(grants[t]) = MaxRole
        /\ grants[t][1] \in failed[t]
        /\ grants[t][MaxRole] \notin failed[t]

\* C13: the closure of observe_member saves exactly once, as its last step:
\* save_member starts only after last_seen or at the end of restore_member,
\* never starts again, and the critical section is left only by the commit
\* of save_member; when restore_member did not run, the role rows at the
\* commit are the roles of the incoming snapshot and last_seen is the time
\* save_member read, not earlier than the clock at its call.
C13_OneSave ==
    /\ [](\A t \in Tasks :
            (SaveDone(t) /\ ~Triggered(t)) =>
                /\ Range(SelectRoles(member[t].user_id, member[t].server_id))
                      = Range(incoming[t])
                /\ last_seen(member[t]) = Some(stamp[t])
                /\ stamp[t] >= before[t])
    /\ [][\A t \in Tasks :
            /\ (pc'[t] = "unlock" /\ pc[t] # "unlock") => SaveDone(t)
            /\ (pc'[t] = "saveClock" /\ pc[t] # "saveClock") =>
                  pc[t] \in {"lastSeen", "restoring"}
            /\ pc[t] \in InSave => pc'[t] \in InSave \cup {"unlock"}
            /\ (pc[t] \in InSave \ {"saveClock"}) => pc'[t] # "saveClock"]_vars

\* a save without restoration that discards a persisted role and refreshes
\* last_seen
C13_Witness ==
    \E t \in Tasks :
        /\ SaveDone(t) /\ ~Triggered(t)
        /\ incoming[t] # <<>>
        /\ Range(pre[t]) \ Range(incoming[t]) # {}
        /\ IsSome(seen[t]) /\ stamp[t] > seen[t][1]

\* the guild ids the configured restriction lists
Listed == IF IsSome(config) THEN Range(config[1].servers) ELSE {}

\* C15: filter_allow_server is true for every guild when no restriction is
\* configured, true exactly for the listed guilds under mode allow, true
\* exactly for the other guilds under mode deny; for one list the two modes
\* give opposite results; and a member event is handled only for a guild
\* the filter admits.
C15_Filter ==
    /\ \A g \in Guilds :
          /\ config = None => filter_allow_server(g)
          /\ (IsSome(config) /\ config[1].mode = Allow) =>
                (filter_allow_server(g) <=> g \in Listed)
          /\ (IsSome(config) /\ config[1].mode = Deny) =>
                (filter_allow_server(g) <=> g \notin Listed)
          /\ \A servers \in GuildLists :
                is_restricted([mode |-> Allow, servers |-> servers], g)
                    # is_restricted([mode |-> Deny, servers |-> servers], g)
    /\ \A t \in Tasks :
          pc[t] \in Observing => filter_allow_server(member[t].server_id)

\* under mode deny with a listed guild, the event of a member of another
\* guild is handled
C15_Witness ==
    \E t \in Tasks :
        /\ pc[t] \in Observing
        /\ IsSome(config) /\ config[1].mode = Deny
        /\ Listed # {}
        /\ member[t].server_id \notin Listed

\* positions of a do_locked call that holds an Arc of a handle
HoldsRef == {"waitHandle", "lockFresh"} \cup InCS \cup {"dropRef"}

\* the handles some task refers to
LiveHandles == {h \in HandleIds : Refs(h) # {}}

\* C16: every task that waits for or is inside the critical section of a key
\* holds a reference to the one handle the table has for that key, so two
\* tasks at the same key hold the same handle; handles of different keys
\* differ; a handle the table still upgrades is referred to by some task;
\* and there are no more live handles than running do_locked calls.
C16_LockTable ==
    /\ \A t \in Tasks :
          /\ pc[t] \in HoldsRef <=> user_lock[t] # 0
          /\ user_lock[t] # 0 => member_locks[KeyOf(member[t])] = user_lock[t]
    /\ \A k \in Keys : member_locks[k] # 0 => Refs(member_locks[k]) # {}
    /\ \A k, q \in Keys : (k # q /\ member_locks[k] # 0) => member_locks[k] # member_locks[q]
    /\ \A h \in HandleIds : handleOwner[h] # 0 => handleOwner[h] \in Refs(h)
    /\ Cardinality(LiveHandles)
          <= Cardinality({t \in Tasks : pc[t] \in Observing \cup {"unlock", "dropRef"}})

\* two callers share the handle of one key
C16_Witness ==
    \E t, u \in Tasks :
        /\ t # u
        /\ user_lock[t] # 0 /\ user_lock[t] = user_lock[u]
        /\ branch[t] = "created" /\ branch[u] = "found"

\* C17: the guard of the registry is held only from its acquisition to the
\* drop of line 247 or of line 254: never by a task that waits for a handle
\* another caller may hold, nor inside the critical section; and the handle
\* a task locks while it holds the registry is free, so a task that holds
\* the registry is never blocked.
C17_Registry ==
    \A t \in Tasks :
        /\ regHolder = t => pc[t] \in {"lookup", "lockFresh", "dropReg"}
        /\ pc[t] \in {"lookup", "lockFresh", "dropReg"} => regHolder = t
        /\ pc[t] = "lockFresh" => HandleFree(user_lock[t])

\* a caller waits for a handle held inside a critical section while the
\* registry is free
C17_Witness ==
    \E t, u \in Tasks :
        /\ pc[t] = "waitHandle"
        /\ handleOwner[user_lock[t]] = u
        /\ pc[u] \in InCS \ {"dropReg"}
        /\ regHolder = 0

\* C19: the table last_seen has at most one row for a key.
C19_OneRow ==
    \A k \in Keys : Cardinality(SelectLastSeen(k[1], k[2])) <= 1

\* a save has replaced the row of a key by one with a later time
C19_Witness ==
    \E t \in Tasks :
        /\ pc[t] = "saveDelete"
        /\ IsSome(seen[t]) /\ seen[t][1] < stamp[t]
        /\ SelectLastSeen(member[t].user_id, member[t].server_id) = {stamp[t]}

\* positions inside forget_guild
InForget == {"forgetRoles", "forgetSeen", "forgetCommit"}

\* C20: forget_guild holds neither a handle nor the registry; and whatever
\* forget_guild committed while an observe was between its read of last_seen
\* and its save, the key of the observe has its last_seen row and the roles
\* of the member when the save is about to commit.
C20_Recreate ==
    /\ \A t \in Tasks :
          pc[t] \in InForget =>
              /\ user_lock[t] = 0
              /\ regHolder # t
              /\ \A h \in HandleIds : handleOwner[h] # t
    /\ \A t \in Tasks :
          SaveDone(t) =>
              /\ last_seen(member[t]) = Some(stamp[t])
              /\ SelectRoles(member[t].user_id, member[t].server_id) = member[t].roles

\* the guild was forgotten after the observe read last_seen and before it
\* read the roles: the forget has committed, no other handler runs, and the
\* save has written the rows of the key again
C20_Witness ==
    \E t \in Tasks :
        /\ SaveDone(t)
        /\ Triggered(t)
        /\ pre[t] # <<>> /\ persisted[t] = <<>>
        /\ \A u \in Tasks \ {t} : pc[u] = "idle"
        /\ last_seen(member[t]) = Some(stamp[t])
        /\ member[t].roles # <<>>

\* task t holds no lock
HoldsNothing(t) ==
    /\ dataHolder # t
    /\ regHolder # t
    /\ user_lock[t] = 0
    /\ \A h \in HandleIds : handleOwner[h] # t

\* C18: whenever a handler is running some handler can take a step; a task
\* that runs no handler holds no lock; and under fair scheduling every
\* handler that was started returns.
C18_NoDeadlock ==
    /\ []((\E t \in Tasks : pc[t] # "idle") => \E t \in Tasks : ENABLED Step(t))
    /\ [](\A t \in Tasks : pc[t] = "idle" => HoldsNothing(t))
    /\ \A t \in Tasks : (pc[t] # "idle") ~> (pc[t] = "idle")

\* the three locks are held at once while a task waits for the data lock and
\* a request is pending
C18_Witness ==
    \E t, u \in Tasks :
        /\ t # u
        /\ pc[t] = "granting" /\ dataHolder = t
        /\ pc[u] = "forgetRoles"

\* the users of the roster fetched last that the running sync has saved
SavedUsers == [i \in 1..Len(prev[1].saved) |-> prev[1].saved[i].user_id]

\* the guilds whose roster the running sync has asked for
FetchedGuilds == [i \in 1..Len(prev[1].fetches) |-> prev[1].fetches[i].guild]

\* C14: a sync saves the members of a fetched roster in order, and when it
\* has left the roster it has saved every one of them, whether or not the
\* requests of an earlier member failed; it asks for the rosters of the
\* guilds it kept in order, and when the handler has returned it has asked
\* for every one of them, whether or not an earlier fetch failed.
C14_NoAbort ==
    (watch = "bulk" /\ IsSome(prev)) =>
        /\ Len(SavedUsers) <= Len(prev[1].whole)
        /\ SavedUsers = SubSeq(prev[1].whole, 1, Len(SavedUsers))
        /\ Len(FetchedGuilds) <= Len(prev[1].batch)
        /\ FetchedGuilds = SubSeq(prev[1].batch, 1, Len(FetchedGuilds))
        /\ (\A t \in Tasks : pc[t] \in {"idle", "fetch"}) => SavedUsers = prev[1].whole
        /\ (\A t \in Tasks : pc[t] = "idle") => FetchedGuilds = prev[1].batch

\* ready has returned: the first fetch failed, the second returned two
\* members, a request of the first member failed, and both were saved
C14_Witness ==
    /\ watch = "bulk" /\ IsSome(prev)
    /\ \A t \in Tasks : pc[t] = "idle"
    /\ Len(prev[1].fetches) = 2
    /\ ~prev[1].fetches[1].ok /\ prev[1].fetches[2].ok
    /\ Len(prev[1].saved) = 2
    /\ prev[1].saved[1].failed

====
